---------------------------- MODULE Spec2Model ----------------------------
(***************************************************************************)
(* A model of Poco::Data::ODBC::ODBCStatementImpl                           *)
(* (Data/ODBC/src/ODBCStatementImpl.cpp): the statement engine that         *)
(* compiles, binds, executes and iterates an ODBC statement.                *)
(*                                                                          *)
(* The statement object's fields are the variables.  The ODBC driver, the   *)
(* session and the caller-supplied bindings are the environment: every      *)
(* handler takes an environment record d that says how the driver answers   *)
(* the calls the handler makes.  A handler is an operator from a "world"    *)
(* record (all fields, the driver's state, the driver calls made so far     *)
(* and the exception in flight) to the world after it, so that nested       *)
(* calls compose as they do in the code; an action applies one handler      *)
(* and stores the resulting world.                                          *)
(***************************************************************************)
EXTENDS Integers, Sequences, FiniteSets, TLC

(***************************************************************************)
(* Bounds of the model.                                                     *)
(***************************************************************************)
MaxRows == 2        \* rows the driver serves per result set
MaxSets == 2        \* result sets the driver serves per execution
MaxCtx == 2         \* Extractor objects ever created
MaxRowCount == 1    \* largest count the driver reports / a binding handles
MaxErr == 1         \* diagnostic records kept in _errorInfo
MaxNeed == 2        \* "need data" answers of SQLParamData per execution
MaxBind == 2        \* bindings the caller supplies per data set

(***************************************************************************)
(* ODBC return codes (sql.h), kept symbolic.                                *)
(***************************************************************************)
SQL_SUCCESS == "SQL_SUCCESS"
SQL_SUCCESS_WITH_INFO == "SQL_SUCCESS_WITH_INFO"
SQL_NO_DATA == "SQL_NO_DATA"
SQL_NEED_DATA == "SQL_NEED_DATA"
SQL_ERROR == "SQL_ERROR"

INVALID_CURSOR_STATE == "24000"
GENERAL_ERROR == "HY000"
GENERAL_WARNING == "01000"

LIMIT_UNLIMITED == "unlimited"

None == "none"

\* The bound buffers hold no row.
NoRow == <<>>

VARIABLES
    \* ODBCStatementImpl
    _stepCalled, _nextResponse, _prepared, _affectedRowCount, _canCompile,
    _preparations, _extractors, _pBinder, _errorInfo, _columnPtrs,
    \* StatementImpl (base class) and session
    _curDataSet, extractions, _extrLimit, text, autoExtract,
    \* the driver's side of the statement handle
    drv,
    \* the last operation: its name, the exception that escaped it, its
    \* return value, and the driver calls it made, in order
    last, trace,
    \* observers
    allocs, ub, phase, fetched, yielded, runFetched, seen

vars == <<_stepCalled, _nextResponse, _prepared, _affectedRowCount, _canCompile,
          _preparations, _extractors, _pBinder, _errorInfo, _columnPtrs,
          _curDataSet, extractions, _extrLimit, text, autoExtract,
          drv, last, trace,
          allocs, ub, phase, fetched, yielded, runFetched, seen>>

(***************************************************************************)
(* The world a handler works on.  thrown is the exception in flight, ret    *)
(* the value being returned, rc the driver's latest return code, trace the  *)
(* driver calls of the operation so far.                                    *)
(***************************************************************************)
World ==
    [_stepCalled |-> _stepCalled, _nextResponse |-> _nextResponse,
     _prepared |-> _prepared, _affectedRowCount |-> _affectedRowCount,
     _canCompile |-> _canCompile, _preparations |-> _preparations,
     _extractors |-> _extractors, _pBinder |-> _pBinder,
     _errorInfo |-> _errorInfo, _columnPtrs |-> _columnPtrs,
     _curDataSet |-> _curDataSet, extractions |-> extractions,
     _extrLimit |-> _extrLimit, text |-> text, autoExtract |-> autoExtract,
     drv |-> drv, trace |-> <<>>, thrown |-> None, ret |-> FALSE, count |-> 0,
     rc |-> SQL_SUCCESS, allocs |-> allocs, ub |-> ub, rows |-> 0,
     \* what the operation did: the rows fetched and extracted, the runs of
     \* doPrepare() and the driver calls of the latest one, the
     \* cursor-state workarounds, the output-parameter synchronizations
     fetches |-> <<>>, extracted |-> <<>>, dpRan |-> 0, dpCalls |-> <<>>,
     quirks |-> 0, sync |-> 0,
     \* the format errors met while discovering columns
     formatErrs |-> 0,
     \* the diagnostic records held when the handle was reset or executed
     carried |-> 0,
     \* what the driver and the engine have done for the data sets (see
     \* Unseen), and the fetches issued on a data set not prepared for
     seen |-> seen, early |-> 0]

Thrown(w) == w.thrown # None
Throw(w, e) == [w EXCEPT !.thrown = e]
Call(w, f) == [w EXCEPT !.trace = Append(@, f)]

\* What has been done for the data sets, by data-set index:
\*   visited   the indices that have been current since the driver prepared
\*             the statement
\*   prepDone  the indices for which doPrepare() has completed for the
\*             current execution; a preparation made before the first
\*             execution counts for that execution
\*   executed  the statement has been executed since it was prepared
Unseen == [visited |-> {}, prepDone |-> {}, executed |-> FALSE]

\* The driver prepared the statement anew.
Reprepared(w) ==
    [w EXCEPT !.seen = [Unseen EXCEPT !.visited = {w._curDataSet}]]

\* An execution of the statement began.
Began(w) ==
    [w EXCEPT !.seen.prepDone = IF w.seen.executed THEN {} ELSE @,
              !.seen.executed = TRUE]

\* A fetch is issued.
Fetching(w) ==
    IF w._curDataSet \in w.seen.prepDone THEN w ELSE [w EXCEPT !.early = @ + 1]

\* A call that resets or executes the statement handle.
Issue(w, f) == [Call(w, f) EXCEPT !.carried = @ + Len(w._errorInfo)]

Count(s, x) == Cardinality({i \in DOMAIN s : s[i] = x})

(***************************************************************************)
(* The driver.  Its side of the statement handle is                         *)
(*   prepared  a statement text has been prepared or executed directly      *)
(*   cols      result columns of the prepared statement                     *)
(*   cursor    "closed" (nothing executed, or closed), "open" (a result set *)
(*             with rows to fetch), "eof" (the open result set is           *)
(*             exhausted), "rowless" (the current result has no cursor,     *)
(*             such as a row count inside a procedure call), "done" (no     *)
(*             results left), "need" (execution waits for parameter data)   *)
(*   dset,drow the current result and the rows fetched from it              *)
(*   buf       the row held by the bound buffers                            *)
(*   diag      the diagnostic records of the latest call                    *)
(* dset, drow and buf name rows only while a result set is being fetched:   *)
(* they are reset when it ends.                                             *)
(* Results are produced as the engine asks for them: the answer to a call   *)
(* is fixed by the driver's state and the flavour the environment gives.    *)
(***************************************************************************)
DrvInit ==
    [prepared |-> FALSE, cols |-> 0, cursor |-> "closed", dset |-> 0,
     drow |-> 0, buf |-> NoRow, diag |-> <<>>]

Answer(w, d, rc, diag) ==
    [w EXCEPT !.drv = [d EXCEPT !.diag = diag], !.rc = rc]

InfoAllowed(w) == Len(w._errorInfo) < MaxErr

\* SQLFetch: f is "row" (serve a row if the result set has one), "info" (serve
\* it with a warning), "end" (the result set ends here) or "fail".
SQLFetch(w, f) ==
    LET w0 == Fetching(Call(w, "SQLFetch"))
        d == w.drv
    IN  IF f = "fail" THEN Answer(w0, d, SQL_ERROR, <<GENERAL_ERROR>>)
        ELSE IF d.cursor = "open"
        THEN IF f \in {"row", "info"} /\ d.drow < MaxRows
             THEN LET row == <<d.dset, d.drow + 1>>
                      d1 == [d EXCEPT !.drow = @ + 1, !.buf = row]
                      w1 == [w0 EXCEPT !.fetches = Append(@, row)]
                  IN  IF f = "info" /\ InfoAllowed(w)
                      THEN Answer(w1, d1, SQL_SUCCESS_WITH_INFO, <<GENERAL_WARNING>>)
                      ELSE Answer(w1, d1, SQL_SUCCESS, <<>>)
             ELSE Answer(w0, [d EXCEPT !.cursor = "eof", !.drow = 0, !.buf = NoRow],
                         SQL_NO_DATA, <<>>)
        ELSE IF d.cursor = "eof" THEN Answer(w0, d, SQL_NO_DATA, <<>>)
        ELSE Answer(w0, d, SQL_ERROR, <<INVALID_CURSOR_STATE>>)

\* SQLMoreResults: m is "more" (a further result set with a cursor), "rowless"
\* (a further result without one), "none" or "fail".
SQLMoreResults(w, m) ==
    LET w0 == Call(w, "SQLMoreResults")
        d == w.drv
    IN  IF m = "fail" THEN Answer(w0, d, SQL_ERROR, <<GENERAL_ERROR>>)
        ELSE IF d.cursor \in {"open", "eof", "rowless"} /\ m \in {"more", "rowless"}
                /\ d.dset < MaxSets
        THEN Answer(w0, [d EXCEPT !.dset = @ + 1, !.drow = 0, !.buf = NoRow,
                                  !.cursor = IF m = "more" THEN "open" ELSE "rowless"],
                    SQL_SUCCESS, <<>>)
        ELSE Answer(w0, [d EXCEPT !.cursor = IF @ = "closed" THEN "closed" ELSE "done",
                                  !.dset = 0, !.drow = 0, !.buf = NoRow],
                    SQL_NO_DATA, <<>>)

\* The statement has executed: its first result is current.
Executed(d, e) ==
    [d EXCEPT !.dset = 1, !.drow = 0, !.buf = NoRow,
              !.cursor = IF d.cols = 0 \/ e = "rowless" THEN "rowless" ELSE "open"]

\* SQLExecute: e is "rows", "rowless", "info", "need" or "fail".
SQLExecute(w, e) ==
    LET w0 == Issue(w, "SQLExecute")
        d == w.drv
    IN  IF e = "fail" \/ ~d.prepared THEN Answer(w0, d, SQL_ERROR, <<GENERAL_ERROR>>)
        ELSE IF e = "need" THEN Answer(w0, [d EXCEPT !.cursor = "need"], SQL_NEED_DATA, <<>>)
        ELSE IF e = "info" /\ InfoAllowed(w)
        THEN Answer(Began(w0), Executed(d, e), SQL_SUCCESS_WITH_INFO, <<GENERAL_WARNING>>)
        ELSE Answer(Began(w0), Executed(d, e), SQL_SUCCESS, <<>>)

\* SQLExecDirect prepares and executes the given text; p is "cols" or "nocols".
SQLExecDirect(w, e, p) ==
    LET w0 == Issue(w, "SQLExecDirect")
        d == w.drv
        d1 == [d EXCEPT !.prepared = TRUE, !.cols = IF p = "cols" THEN 1 ELSE 0]
    IN  IF e = "fail" THEN Answer(w0, d, SQL_ERROR, <<GENERAL_ERROR>>)
        ELSE IF e = "info" /\ InfoAllowed(w)
        THEN Answer(Began(w0), Executed(d1, e), SQL_SUCCESS_WITH_INFO, <<GENERAL_WARNING>>)
        ELSE Answer(Began(w0), Executed(d1, e), SQL_SUCCESS, <<>>)

\* SQLPrepare: p is "cols" (the statement returns columns), "nocols" or "fail".
SQLPrepare(w, p) ==
    LET w0 == Call(w, "SQLPrepare")
        d == w.drv
    IN  IF p = "fail"
        THEN Answer([w0 EXCEPT !.seen = Unseen], d, SQL_ERROR, <<GENERAL_ERROR>>)
        ELSE Answer(Reprepared(w0),
                    [d EXCEPT !.prepared = TRUE, !.cursor = "closed",
                              !.dset = 0, !.drow = 0, !.buf = NoRow,
                              !.cols = IF p = "cols" THEN 1 ELSE 0],
                    SQL_SUCCESS, <<>>)

\* SQLFreeStmt(SQL_CLOSE): k is "ok" or "fail".
SQLFreeStmt(w, k) ==
    LET w0 == Issue(w, "SQLFreeStmt")
        d == w.drv
    IN  IF k = "fail" THEN Answer(w0, d, SQL_ERROR, <<GENERAL_ERROR>>)
        ELSE Answer(w0, [d EXCEPT !.cursor = "closed", !.dset = 0, !.drow = 0,
                                  !.buf = NoRow],
                    SQL_SUCCESS, <<>>)

\* SQLSetStmtAttr(SQL_ATTR_ROW_ARRAY_SIZE): a is "ok" or "fail".
SQLSetStmtAttr(w, a) ==
    Answer(Call(w, "SQLSetStmtAttr"), w.drv,
           IF a = "fail" THEN SQL_ERROR ELSE SQL_SUCCESS,
           IF a = "fail" THEN <<GENERAL_ERROR>> ELSE <<>>)

\* SQLGetDiagRec(i): the i-th record of the latest call, if there is one.
SQLGetDiagRec(w, i) ==
    [Call(w, "SQLGetDiagRec") EXCEPT
        !.rc = IF i <= Len(w.drv.diag) THEN SQL_SUCCESS ELSE SQL_NO_DATA]

(***************************************************************************)
(* Utility::isError, and the accessors of StatementImpl and of the header.  *)
(***************************************************************************)
isError(rc) == rc \notin {SQL_SUCCESS, SQL_SUCCESS_WITH_INFO}

SQL_SUCCEEDED(rc) == rc \in {SQL_SUCCESS, SQL_SUCCESS_WITH_INFO}

nextRowReady(w) == ~isError(w._nextResponse)

columnsReturned(w) == w.drv.cols

hasData(w) == columnsReturned(w) > 0

currentDataSet(w) == w._curDataSet

dataSetCount(w) == Len(w.extractions)

\* extractions(): the output bindings of the current data set.
Extracts(w) == w.extractions[currentDataSet(w) + 1]

hasMoreDataSets(w) == currentDataSet(w) + 1 < dataSetCount(w)

activateNextDataSet(w) ==
    IF w._curDataSet + 1 < dataSetCount(w)
    THEN [w EXCEPT !._curDataSet = @ + 1,
                   !.seen.visited = @ \cup {w._curDataSet + 1}]
    ELSE Throw(w, "NoDataException")

getExtractionLimit(w) == w._extrLimit

\* makeExtractors(count): one internal, non-bulk output binding per column.
makeExtractors(w, count) ==
    [w EXCEPT !.extractions[currentDataSet(w) + 1] =
        @ \o [i \in 1..count |-> [bulk |-> FALSE]]]

\* trimInPlace: drop the blanks at both ends.
RECURSIVE trimLeft(_)
trimLeft(s) == IF s # <<>> /\ Head(s) = " " THEN trimLeft(Tail(s)) ELSE s

RECURSIVE trimRight(_)
trimRight(s) ==
    IF s # <<>> /\ s[Len(s)] = " " THEN trimRight(SubSeq(s, 1, Len(s) - 1)) ELSE s

trimInPlace(s) == trimRight(trimLeft(s))

(***************************************************************************)
(* Undefined behaviour: an index past the end of _extractors or             *)
(* _preparations.  The read finds whatever lies there: the process dies     *)
(* ("crash"), the slot reads as a null pointer, whose dereference Poco      *)
(* turns into a NullPointerException ("throw"), or it reads as some object  *)
(* and the handler goes on ("continue").                                    *)
(***************************************************************************)
OutOfRange(w, u) ==
    LET w1 == [w EXCEPT !.ub = TRUE]
    IN  IF u = "crash" THEN Throw(w1, "crash")
        ELSE IF u = "throw" THEN Throw(w1, "NullPointerException")
        ELSE w1

(***************************************************************************)
(* ODBCStatementImpl.cpp                                                    *)
(***************************************************************************)
\* addErrors(): the do-while loop from record i + 1 on.
RECURSIVE addErrorsFrom(_, _)
addErrorsFrom(w, i) ==
    LET Filled(x) ==
            IF SQL_SUCCEEDED(x.rc)
            THEN [x EXCEPT !._errorInfo[Len(x._errorInfo)] = w.drv.diag[i + 1]]
            ELSE IF Len(x._errorInfo) > 0
            THEN [x EXCEPT !._errorInfo = SubSeq(@, 1, Len(@) - 1)]
            ELSE x
        While(x) == IF x.rc = SQL_SUCCESS THEN addErrorsFrom(x, i + 1) ELSE x
    IN  While(Filled(SQLGetDiagRec([w EXCEPT !._errorInfo = Append(@, "")], i + 1)))

addErrors(w) == addErrorsFrom(w, 0)

\* checkError(rc): the exception's text asks the driver for the native SQL.
checkError(w, rc) ==
    IF Thrown(w) THEN w
    ELSE IF rc = SQL_NO_DATA THEN w
    ELSE IF isError(rc) THEN Throw(Call(w, "SQLNativeSql"), "StatementException")
    ELSE IF rc = SQL_SUCCESS_WITH_INFO THEN addErrors(w)
    ELSE w

\* checkError(rc) on the return code of the call just made.
checkRc(w) == checkError(w, w.rc)

isStoredProcedure(w) ==
    LET str == trimInPlace(w.text)
    IN  IF Len(str) < 2 THEN FALSE
        ELSE str[1] = "{" /\ str[Len(str)] = "}"

\* new Preparator(_stmt, statement, ...): prepares the text on the handle.
NewPreparator(w, p) ==
    LET Made(x) ==
            IF isError(x.rc) THEN Throw(x, "StatementException")
            ELSE [x EXCEPT !.allocs = @ + 1,
                           !._preparations = Append(@, [id |-> x.allocs + 1, master |-> TRUE])]
    IN  Made(SQLPrepare(w, p))

\* new Preparator(*_preparations[0]): a copy of the master context.
ClonePreparator(w) ==
    [w EXCEPT !.allocs = @ + 1,
              !._preparations = Append(@, [id |-> w.allocs + 1, master |-> FALSE])]

\* A faulty addPreparator(): the empty statement text is not rejected.
addPreparatorAcceptingEmpty(w, p) ==
    LET NewExtractor(x) ==
            IF Thrown(x) THEN x
            ELSE [x EXCEPT !._extractors =
                      Append(@, [prep |-> x._preparations[Len(x._preparations)].id])]
    IN  IF Thrown(w) THEN w
        ELSE IF 0 = Len(w._preparations)
        THEN NewExtractor(NewPreparator(w, p))
        ELSE NewExtractor(ClonePreparator(w))

addPreparator(w, p) ==
    LET NewExtractor(x) ==
            IF Thrown(x) THEN x
            ELSE [x EXCEPT !._extractors =
                      Append(@, [prep |-> x._preparations[Len(x._preparations)].id])]
    IN  IF Thrown(w) THEN w
        ELSE IF 0 = Len(w._preparations)
        THEN IF w.text = <<>>
             THEN Throw(w, "ODBCException")
             ELSE NewExtractor(NewPreparator(w, p))
        ELSE NewExtractor(ClonePreparator(w))

\* fillColumns(): c is "format" when describing the first column raises a
\* DataFormatException.
fillColumns(w, c) ==
    LET colCount == columnsReturned(w)
        curDataSet == currentDataSet(w)
        Filled(x) ==
            IF colCount > 0 /\ c = "format"
            THEN Throw([x EXCEPT !.formatErrs = @ + 1], "DataFormatException")
            ELSE [x EXCEPT !._columnPtrs[curDataSet + 1] = @ + colCount]
    IN  IF curDataSet >= Len(w._columnPtrs)
        THEN Filled([w EXCEPT !._columnPtrs =
                         @ \o [i \in 1..(curDataSet + 1 - Len(@)) |-> 0]])
        ELSE Filled(w)

\* A faulty makeInternalExtractors(): the format error is swallowed whatever
\* the statement.
makeInternalExtractorsSwallowing(w, c) ==
    LET Caught(x) ==
            IF x.thrown = "DataFormatException"
            THEN [x EXCEPT !.thrown = None]
            ELSE makeExtractors(x, columnsReturned(x))
    IN  IF Thrown(w) THEN w
        ELSE IF hasData(w) /\ Len(Extracts(w)) = 0
        THEN Caught(fillColumns(w, c))
        ELSE w

makeInternalExtractors(w, c) ==
    LET Caught(x) ==
            IF x.thrown = "DataFormatException"
            THEN IF isStoredProcedure(x) THEN [x EXCEPT !.thrown = None] ELSE x
            ELSE makeExtractors(x, columnsReturned(x))
    IN  IF Thrown(w) THEN w
        ELSE IF hasData(w) /\ Len(Extracts(w)) = 0
        THEN Caught(fillColumns(w, c))
        ELSE w

\* A faulty doPrepareBody(): the row-array size is set on the driver before
\* the extraction limit is looked at.
doPrepareBodySettingSizeFirst(w, a) ==
    LET extracts == Extracts(w)
        Prepared(x) ==
            IF Thrown(x) THEN x
            ELSE [x EXCEPT !.trace = @ \o [i \in 1..Len(extracts) |-> "SQLBindCol"],
                           !._prepared = TRUE,
                           !.seen.prepDone = @ \cup {currentDataSet(x)}]
    IN  IF Thrown(w) THEN w
        ELSE IF ~(Len(extracts) > 0 /\ extracts[1].bulk) THEN Prepared(w)
        ELSE IF getExtractionLimit(w) = LIMIT_UNLIMITED
        THEN Throw(SQLSetStmtAttr(w, a), "InvalidArgumentException")
        ELSE Prepared(checkRc(SQLSetStmtAttr(w, a)))

\* The body of doPrepare() once the current context has been read.
doPrepareBody(w, a) ==
    LET extracts == Extracts(w)
        Prepared(x) ==
            IF Thrown(x) THEN x
            ELSE [x EXCEPT !.trace = @ \o [i \in 1..Len(extracts) |-> "SQLBindCol"],
                           !._prepared = TRUE,
                           !.seen.prepDone = @ \cup {currentDataSet(x)}]
    IN  IF Thrown(w) THEN w
        ELSE IF ~(Len(extracts) > 0 /\ extracts[1].bulk) THEN Prepared(w)
        ELSE IF getExtractionLimit(w) = LIMIT_UNLIMITED
        THEN Throw(w, "InvalidArgumentException")
        ELSE Prepared(checkRc(SQLSetStmtAttr(w, a)))

\* doPrepare(): a is the driver's answer to SQLSetStmtAttr, u the outcome of an
\* out-of-range _preparations[curDataSet].
doPrepare(w, a, u) ==
    LET Entered(x) == [x EXCEPT !.dpRan = @ + 1, !.dpCalls = <<>>]
        Left(x) ==
            [x EXCEPT !.dpCalls = SubSeq(x.trace, Len(w.trace) + 1, Len(x.trace))]
    IN  IF Thrown(w) THEN w
        ELSE IF ~(w.autoExtract /\ hasData(w)) THEN Entered(w)
        ELSE IF currentDataSet(w) >= Len(w._preparations)
        THEN Left(doPrepareBody(OutOfRange(Entered(w), u), a))
        ELSE Left(doPrepareBody(Entered(w), a))

\* A faulty compileImpl(): the _canCompile guard is missing.
compileImplUnguarded(w, d) ==
    LET Reset(x) == [x EXCEPT !._stepCalled = FALSE, !._nextResponse = SQL_SUCCESS]
        Discarded(x) ==
            IF Len(x._preparations) > 0 THEN [x EXCEPT !._preparations = <<>>] ELSE x
        NewBinder(x) == IF Thrown(x) THEN x ELSE [x EXCEPT !._pBinder = x.allocs]
        Compiled(x) == IF Thrown(x) THEN x ELSE [x EXCEPT !._canCompile = FALSE]
    IN  Compiled(doPrepare(
            makeInternalExtractors(
                NewBinder(addPreparator(Discarded(Reset(w)), d.p)), d.c),
            d.a, d.u))

\* compileImpl(): d.p answers SQLPrepare, d.c fillColumns, d.a SQLSetStmtAttr.
compileImpl(w, d) ==
    LET Reset(x) == [x EXCEPT !._stepCalled = FALSE, !._nextResponse = SQL_SUCCESS]
        Discarded(x) ==
            IF Len(x._preparations) > 0 THEN [x EXCEPT !._preparations = <<>>] ELSE x
        \* new Binder(...): a fresh object, named by the allocation count
        NewBinder(x) == IF Thrown(x) THEN x ELSE [x EXCEPT !._pBinder = x.allocs]
        Compiled(x) == IF Thrown(x) THEN x ELSE [x EXCEPT !._canCompile = FALSE]
    IN  IF ~w._canCompile THEN w
        ELSE Compiled(doPrepare(
                 makeInternalExtractors(
                     NewBinder(addPreparator(Discarded(Reset(w)), d.p)), d.c),
                 d.a, d.u))

canBind(bindings) ==
    IF bindings # <<>> THEN bindings[1].canBind ELSE FALSE

\* A faulty clear(): _affectedRowCount is not reset.
clearKeepingRowCount(w, k) ==
    LET Closed(x) == IF isError(x.rc) THEN Throw(x, "StatementException") ELSE x
    IN  Closed(SQLFreeStmt([w EXCEPT !._stepCalled = FALSE, !._errorInfo = <<>>], k))

clear(w, k) ==
    LET Closed(x) == IF isError(x.rc) THEN Throw(x, "StatementException") ELSE x
    IN  Closed(SQLFreeStmt([w EXCEPT !._stepCalled = FALSE, !._affectedRowCount = 0,
                                     !._errorInfo = <<>>], k))

\* The binding loop of doBind(): bind while the bindings report canBind().
RECURSIVE bindLoop(_, _, _)
bindLoop(w, binds, i) ==
    IF i <= Len(binds) /\ binds[i].canBind
    THEN bindLoop(Call(w, "SQLBindParameter"), binds, i + 1)
    ELSE w

doBind(w, binds, k) ==
    LET Counted(x) ==
            IF 0 = x._affectedRowCount
            THEN [x EXCEPT !._affectedRowCount = binds[1].rows]
            ELSE x
        Cleared(x) ==
            IF Thrown(x) THEN x
            ELSE IF binds # <<>> THEN bindLoop(Counted(x), binds, 1)
            ELSE x
    IN  Cleared(clear(w, k))

\* SQLParamData: the next answer of the driver's script, or its final answer.
SQLParamData(w, pd, i, pdEnd) ==
    LET w0 == Call(w, "SQLParamData")
    IN  IF i <= Len(pd) THEN Answer(w0, w.drv, SQL_NEED_DATA, <<>>)
        ELSE IF isError(pdEnd) THEN Answer(w0, w.drv, pdEnd, <<GENERAL_ERROR>>)
        ELSE Answer(Began(w0), Executed(w.drv, "rows"), pdEnd, <<>>)

\* SQLPutData(buffer, size): size is the buffer's declared size, or 0.
SQLPutData(w, size, put) ==
    Answer(Call(w, IF size = 0 THEN "SQLPutData(0)" ELSE "SQLPutData(size)"), w.drv,
           IF put = "fail" THEN SQL_ERROR ELSE SQL_SUCCESS, <<>>)

\* A faulty putDataLoop(): a failed put does not end the loop.
RECURSIVE putDataLoopIgnoringFailure(_, _, _, _)
putDataLoopIgnoringFailure(w, pd, i, pdEnd) ==
    LET Put(x) == putDataLoopIgnoringFailure(x, pd, i + 1, pdEnd)
        Asked(x) ==
            IF SQL_NEED_DATA = x.rc
            THEN IF pd[i].pParam
                 THEN Put(SQLPutData(x, 1, pd[i].put))
                 ELSE Put(SQLPutData(x, 0, pd[i].put))
            ELSE checkRc(x)
    IN  Asked(SQLParamData(w, pd, i, pdEnd))

\* putData(): pd[i] says whether the i-th request names a buffer (pParam) and
\* how the driver answers the put.
RECURSIVE putDataLoop(_, _, _, _)
putDataLoop(w, pd, i, pdEnd) ==
    LET Put(x) ==
            IF isError(x.rc) THEN Throw(x, "StatementException")
            ELSE putDataLoop(x, pd, i + 1, pdEnd)
        Asked(x) ==
            IF SQL_NEED_DATA = x.rc
            THEN IF pd[i].pParam
                 THEN Put(SQLPutData(x, 1, pd[i].put))
                 ELSE Put(SQLPutData(x, 0, pd[i].put))
            ELSE checkRc(x)
    IN  Asked(SQLParamData(w, pd, i, pdEnd))

putData(w, pd, pdEnd) == putDataLoop(w, pd, 1, pdEnd)

\* _pBinder->synchronize(): a null _pBinder throws on dereference.
synchronize(w) ==
    IF Thrown(w) THEN w
    ELSE IF w._pBinder = 0 THEN Throw(w, "NullPointerException")
    ELSE [w EXCEPT !.sync = @ + 1]

bindImpl(w, d) ==
    LET Executed_(x) ==
            IF SQL_NEED_DATA = x.rc THEN putData(x, d.pd, d.pdEnd) ELSE checkRc(x)
        Bound(x) ==
            IF Thrown(x) THEN x ELSE synchronize(Executed_(SQLExecute(x, d.e)))
    IN  Bound(doBind(w, d.binds, d.k))

execDirectImpl(w, d) == checkRc(SQLExecDirect(w, d.e, d.p))

\* makeStep(): f answers SQLFetch, mq the SQLMoreResults of the workaround,
\* u is the outcome of an out-of-range _extractors[currentDataSet()].
makeStep(w, f, mq, u) ==
    LET Fetched(x) == [x EXCEPT !._nextResponse = x.rc]
        Again(x) == [x EXCEPT !._nextResponse = x.rc, !.quirks = @ + 1]
        Workaround(x) ==
            IF isError(x._nextResponse)
               /\ \E i \in DOMAIN x.drv.diag : x.drv.diag[i] = INVALID_CURSOR_STATE
            THEN Again(SQLMoreResults(x, mq))
            ELSE x
        Checked(x) == checkError(x, x._nextResponse)
        Stepped(x) == IF Thrown(x) THEN x ELSE [x EXCEPT !._stepCalled = TRUE]
        Reset(x) ==
            IF Thrown(x) THEN x
            ELSE Stepped(Checked(Workaround(Fetched(SQLFetch(x, f)))))
    IN  IF Thrown(w) THEN w
        ELSE IF currentDataSet(w) >= Len(w._extractors)
        THEN Reset(OutOfRange(w, u))
        ELSE Reset(w)

Return(w, v) == IF Thrown(w) THEN w ELSE [w EXCEPT !.ret = v]

ReturnCount(w, n) == IF Thrown(w) THEN w ELSE [w EXCEPT !.count = n]

\* A faulty hasNextAdvance(): no Preparation Context and Extractor are added
\* for the new data set.
hasNextAdvanceWithoutContext(w, d) ==
    LET Asked(x) ==
            IF SQL_NO_DATA = x.rc THEN Return(x, FALSE)
            ELSE Return(makeStep(doPrepare(x, d.a, d.u), d.f2, d.mq, d.u), TRUE)
    IN  IF ~hasMoreDataSets(w) THEN Return(w, FALSE)
        ELSE Asked(SQLMoreResults(activateNextDataSet(w), d.m))

\* The branch of hasNext() taken when the step found no row.
hasNextAdvance(w, d) ==
    LET Asked(x) ==
            IF SQL_NO_DATA = x.rc THEN Return(x, FALSE)
            ELSE Return(makeStep(doPrepare(addPreparator(x, d.p), d.a, d.u),
                                 d.f2, d.mq, d.u),
                        TRUE)
    IN  IF ~hasMoreDataSets(w) THEN Return(w, FALSE)
        ELSE Asked(SQLMoreResults(activateNextDataSet(w), d.m))

\* A faulty hasNext(): the step is made even when one is pending.
hasNextAlwaysStepping(w, d) ==
    LET Stepped(x) ==
            IF Thrown(x) THEN x
            ELSE IF ~nextRowReady(x) THEN hasNextAdvance(x, d)
            ELSE IF isError(x._nextResponse)
            THEN Return(checkError(x, x._nextResponse), TRUE)
            ELSE Return(x, TRUE)
        Prepared(x) ==
            IF Thrown(x) THEN x ELSE Stepped(makeStep(x, d.f1, d.mq, d.u))
        Extractors(x) == IF ~x._prepared THEN doPrepare(x, d.a, d.u) ELSE x
    IN  IF ~hasData(w) THEN Return(w, FALSE)
        ELSE IF Len(Extracts(w)) = 0
        THEN Prepared(Extractors(makeInternalExtractors(w, d.c)))
        ELSE Prepared(Extractors(w))

hasNext(w, d) ==
    LET Stepped(x) ==
            IF Thrown(x) THEN x
            ELSE IF ~nextRowReady(x) THEN hasNextAdvance(x, d)
            ELSE IF isError(x._nextResponse)
            THEN Return(checkError(x, x._nextResponse), TRUE)
            ELSE Return(x, TRUE)
        Prepared(x) ==
            IF Thrown(x) THEN x
            ELSE IF x._stepCalled
            THEN Return([x EXCEPT !._stepCalled = nextRowReady(x)], nextRowReady(x))
            ELSE Stepped(makeStep(x, d.f1, d.mq, d.u))
        Extractors(x) == IF ~x._prepared THEN doPrepare(x, d.a, d.u) ELSE x
    IN  IF ~hasData(w) THEN Return(w, FALSE)
        ELSE IF Len(Extracts(w)) = 0
        THEN Prepared(Extractors(makeInternalExtractors(w, d.c)))
        ELSE Prepared(Extractors(w))

\* The extraction loop of next(): counts[i] is what the i-th binding's
\* extract() reports.
RECURSIVE extractLoop(_, _, _, _)
extractLoop(w, counts, i, prevCount) ==
    IF i > Len(counts) THEN ReturnCount(w, prevCount)
    ELSE LET count == counts[i]
         IN  IF prevCount # 0 /\ count # prevCount
             THEN Throw(w, "IllegalStateException")
             ELSE extractLoop(w, counts, i + 1, count)

\* A faulty next(): _stepCalled is not cleared.
nextKeepingStep(w, counts) ==
    LET Extracted(x) ==
            IF Thrown(x) THEN x ELSE [x EXCEPT !.extracted = Append(@, w.drv.buf)]
    IN  IF ~nextRowReady(w) THEN Throw(w, "StatementException")
        ELSE IF Len(Extracts(w)) = 0 THEN Throw(w, "AssertionViolationException")
        ELSE Extracted(extractLoop([w EXCEPT !.count = 0], counts, 1, 0))

next(w, counts) ==
    LET Extracted(x) ==
            IF Thrown(x) THEN x
            ELSE [x EXCEPT !._stepCalled = FALSE,
                           !.extracted = Append(@, w.drv.buf)]
    IN  IF ~nextRowReady(w) THEN Throw(w, "StatementException")
        ELSE IF Len(Extracts(w)) = 0 THEN Throw(w, "AssertionViolationException")
        ELSE Extracted(extractLoop([w EXCEPT !.count = 0], counts, 1, 0))

\* SQLRowCount: r.fail, or r.rows is the count the driver reports.
SQLRowCount(w, r) ==
    LET w0 == Call(w, "SQLRowCount")
    IN  IF r.fail THEN Answer(w0, w.drv, SQL_ERROR, <<GENERAL_ERROR>>)
        ELSE [Answer(w0, w.drv, SQL_SUCCESS, <<>>) EXCEPT !.rows = r.rows]

affectedRowCount(w, r) ==
    LET Counted(x) ==
            IF ~isError(x.rc) THEN [x EXCEPT !._affectedRowCount = x.rows] ELSE x
        Cached(x) == ReturnCount(x, x._affectedRowCount)
    IN  IF 0 = w._affectedRowCount
        THEN Cached(Counted(SQLRowCount(w, r)))
        ELSE Cached(w)

(***************************************************************************)
(* What the caller and the session supply.                                  *)
(***************************************************************************)
\* Statement texts, as sequences of characters.
Texts == {<<>>, <<"s">>, <<"{", "c", "}">>}

\* The output bindings, per data set: none (the engine makes its own) or
\* MaxBind of them, all bulk or none bulk.
ExtractionConfigs ==
    {[ds \in 1..k |-> [i \in 1..n |-> [bulk |-> b]]] :
        k \in 1..MaxSets, n \in {0, MaxBind}, b \in BOOLEAN}

Limits == {LIMIT_UNLIMITED, "limited"}

\* The input bindings: each handles the same number of rows.
BindingSeqs ==
    UNION {{[i \in 1..n |-> [canBind |-> cb[i], rows |-> r]] :
              cb \in [1..n -> BOOLEAN], r \in 0..MaxRowCount} : n \in 0..MaxBind}

\* The scripts of the deferred-data protocol: up to MaxNeed requests, of which
\* only the last may see its put fail.
PutScripts ==
    UNION {{s \in [1..n -> [pParam : BOOLEAN, put : {"ok", "fail"}]] :
              \A i \in 1..(n - 1) : s[i].put = "ok"} : n \in 0..MaxNeed}

(***************************************************************************)
(* The environments of the handlers: how the driver and the collaborators   *)
(* answer during one operation.  Each set holds the answers without a       *)
(* failure and, for every call that can fail, one environment in which      *)
(* that call fails.                                                         *)
(***************************************************************************)
Vary(base, field, values) == {[base EXCEPT ![field] = v] : v \in values}

CompileBase == [p |-> "cols", c |-> "ok", a |-> "ok", u |-> "continue"]

CompileEnv ==
    Vary(CompileBase, "p", {"cols", "nocols", "fail"})
    \cup Vary(CompileBase, "c", {"format"})
    \cup Vary(CompileBase, "a", {"fail"})

OneBinding == <<[canBind |-> TRUE, rows |-> MaxRowCount]>>

BindBase ==
    [binds |-> <<>>, k |-> "ok", e |-> "rows", pd |-> <<>>, pdEnd |-> SQL_SUCCESS]

BindEnv ==
    Vary(BindBase, "e", {"rows", "rowless", "info", "fail"})
    \cup Vary(BindBase, "k", {"fail"})
    \cup {[BindBase EXCEPT !.binds = OneBinding, !.e = "need",
                           !.pd = <<[pParam |-> TRUE, put |-> "ok"]>>]}

ExecDirectEnv == [e : {"rows", "rowless", "info", "fail"}, p : {"cols", "nocols"}]

RowCountEnv ==
    {[fail |-> TRUE, rows |-> 0]} \cup [fail : {FALSE}, rows : 0..MaxRowCount]

HasNextBase ==
    [c |-> "ok", a |-> "ok", p |-> "cols", u |-> "continue",
     f1 |-> "end", mq |-> "none", m |-> "more", f2 |-> "row"]

HasNextEnv ==
    Vary(HasNextBase, "f1", {"row", "info"})
    \cup {[HasNextBase EXCEPT !.mq = q, !.m = m, !.f2 = f] :
             q \in {"more", "none"}, m \in {"more", "rowless", "none"},
             f \in {"row", "end"}}
    \cup Vary(HasNextBase, "c", {"format"})
    \cup Vary(HasNextBase, "a", {"fail"})
    \cup Vary(HasNextBase, "f1", {"fail"})
    \cup Vary(HasNextBase, "mq", {"fail"})
    \cup Vary(HasNextBase, "m", {"fail"})
    \cup Vary(HasNextBase, "f2", {"fail"})
    \cup Vary(HasNextBase, "u", {"crash", "throw"})

\* What an operation was called with: the counts the bindings' extract()
\* report to next(), the driver's answer to affectedRowCount(), the driver's
\* answers to SQLExecute and to the deferred-data calls of bind+execute, the
\* input bindings canBind() finds.
NoArg ==
    [counts |-> <<>>, fail |-> FALSE, rows |-> 0,
     e |-> "", pd |-> <<>>, pdEnd |-> SQL_SUCCESS, binds |-> <<>>]

(***************************************************************************)
(* The state after construction (lines 39-48) of a statement with text t,   *)
(* output bindings x, extraction limit l and session feature autoExtract    *)
(* ae.                                                                      *)
(***************************************************************************)
Constructed(t, x, l, ae) ==
    /\ _stepCalled = FALSE
    /\ _nextResponse = SQL_SUCCESS
    /\ _prepared = FALSE
    /\ _affectedRowCount = 0
    /\ _canCompile = TRUE
    /\ _preparations = <<>>
    /\ _extractors = <<>>
    /\ _pBinder = 0
    /\ _errorInfo = <<>>
    /\ _columnPtrs = <<>>
    /\ _curDataSet = 0
    /\ extractions = x
    /\ _extrLimit = l
    /\ text = t
    /\ autoExtract = ae
    /\ drv = DrvInit
    /\ last = [op |-> "ctor", arg |-> NoArg, thrown |-> None, ret |-> FALSE,
               count |-> 0, sync |-> 0, dpRan |-> 0, dpCalls |-> <<>>, quirks |-> 0,
               dropped |-> 0, formatErrs |-> 0, carried |-> 0, early |-> 0]
    /\ trace = <<>>
    /\ allocs = 0
    /\ ub = FALSE
    /\ phase = "off"
    /\ fetched = <<>>
    /\ yielded = <<>>
    /\ runFetched = FALSE
    /\ seen = Unseen

\* Store the world w that operation op, called with arg, ended in.  The
\* driver's diagnostic records are those of its latest call: no handler reads
\* them after it returned, and they are dropped here.  last.dropped is the
\* affected-row count that the clear() just before this operation discarded.
Commit(op, arg, w) ==
    /\ _stepCalled' = w._stepCalled
    /\ _nextResponse' = w._nextResponse
    /\ _prepared' = w._prepared
    /\ _affectedRowCount' = w._affectedRowCount
    /\ _canCompile' = w._canCompile
    /\ _preparations' = w._preparations
    /\ _extractors' = w._extractors
    /\ _pBinder' = w._pBinder
    /\ _errorInfo' = w._errorInfo
    /\ _columnPtrs' = w._columnPtrs
    /\ _curDataSet' = w._curDataSet
    /\ extractions' = w.extractions
    /\ _extrLimit' = w._extrLimit
    /\ text' = w.text
    /\ autoExtract' = w.autoExtract
    /\ drv' = [w.drv EXCEPT !.diag = <<>>]
    /\ last' = [op |-> op, arg |-> arg, thrown |-> w.thrown,
                ret |-> ~Thrown(w) /\ w.ret,
                count |-> IF Thrown(w) THEN 0 ELSE w.count, sync |-> w.sync,
                dpRan |-> w.dpRan, dpCalls |-> w.dpCalls, quirks |-> w.quirks,
                dropped |-> IF op = "clear" THEN _affectedRowCount
                            ELSE IF op = "affectedRowCount" /\ last.op = "clear"
                            THEN last.dropped ELSE 0,
                formatErrs |-> w.formatErrs, carried |-> w.carried,
                early |-> w.early]
    /\ trace' = w.trace
    /\ allocs' = w.allocs
    /\ ub' = w.ub
    /\ seen' = w.seen

\* The observers of a caller that iterates as StatementImpl does: after a
\* successful bind+execute it alternates hasNext() and next().  phase is
\* "hasNext" or "next" (the call expected now), "done" (hasNext() returned
\* false) or "off" (not such a run, or a run that met a result without a
\* cursor); fetched and yielded are the rows the driver served and the rows
\* next() extracted in the run.  runFetched: a run of hasNext() calls is under
\* way and has issued a fetch.
Observe(ph, f, y, rf) ==
    /\ phase' = ph
    /\ fetched' = IF ph = "off" THEN <<>> ELSE f
    /\ yielded' = IF ph = "off" THEN <<>> ELSE y
    /\ runFetched' = rf

\* The model follows the program up to undefined behaviour and no further.
Alive == ~ub

Compile ==
    /\ Alive
    /\ ~_canCompile \/ Len(_extractors) < MaxCtx
    /\ \E d \in CompileEnv :
         LET w == compileImpl(World, d)
         IN  /\ Commit("compile", NoArg, w)
             /\ IF _canCompile THEN Observe("off", <<>>, <<>>, FALSE)
                ELSE UNCHANGED <<phase, fetched, yielded, runFetched>>

BindWith(env) ==
    /\ Alive
    /\ \E d \in env :
         LET w == bindImpl(World, d)
         IN  /\ Commit("bind", NoArg, w)
             /\ Observe(IF Thrown(w) THEN "off" ELSE "hasNext", <<>>, <<>>, FALSE)

Bind == BindWith(BindEnv)

ExecDirect ==
    /\ Alive
    /\ \E d \in ExecDirectEnv :
         LET w == execDirectImpl(World, d)
         IN  /\ Commit("execDirect", NoArg, w)
             /\ Observe("off", <<>>, <<>>, FALSE)

Clear ==
    /\ Alive
    /\ \E k \in {"ok", "fail"} :
         LET w == clear(World, k)
         IN  /\ Commit("clear", NoArg, w)
             /\ Observe("off", <<>>, <<>>, FALSE)

HasNext ==
    /\ Alive
    /\ \E d \in HasNextEnv :
         LET w == hasNext(World, d)
         IN  /\ Commit("hasNext", NoArg, w)
             /\ Observe(IF phase = "hasNext" /\ ~Thrown(w) /\ w.quirks = 0
                        THEN (IF w.ret THEN "next" ELSE "done") ELSE "off",
                        fetched \o w.fetches, yielded,
                        ~Thrown(w) /\ (runFetched \/ Count(w.trace, "SQLFetch") > 0))

NextRow ==
    /\ Alive
    /\ \E counts \in [1..Len(Extracts(World)) -> 0..MaxRowCount] :
         LET w == next(World, counts)
         IN  /\ Commit("next", [NoArg EXCEPT !.counts = counts], w)
             /\ Observe(IF phase = "next" /\ ~Thrown(w) THEN "hasNext" ELSE "off",
                        fetched, yielded \o w.extracted, FALSE)

AffectedRowCount ==
    /\ Alive
    /\ \E r \in RowCountEnv :
         LET w == affectedRowCount(World, r)
         IN  /\ Commit("affectedRowCount", [NoArg EXCEPT !.fail = r.fail, !.rows = r.rows], w)
             /\ UNCHANGED <<phase, fetched, yielded, runFetched>>

(***************************************************************************)
(* Spec: the fetch/cursor state machine.  A statement with output bindings  *)
(* that are not bulk, for one data set or more, in a session with           *)
(* autoExtract, is compiled, bound and executed, iterated and cleared, in   *)
(* any order.                                                               *)
(***************************************************************************)
Init ==
    \E x \in {c \in ExtractionConfigs : \A ds \in DOMAIN c :
                     Len(c[ds]) > 0 /\ \A i \in DOMAIN c[ds] : ~c[ds][i].bulk} :
        Constructed(<<"s">>, x, LIMIT_UNLIMITED, TRUE)

Next ==
    \/ Compile
    \/ Bind
    \/ Clear
    \/ HasNext
    \/ NextRow

Spec == Init /\ [][Next]_vars

(***************************************************************************)
(* SpecCompile: preparation.  Every statement text, one data set with bulk  *)
(* or plain output bindings or none, limited and unlimited extraction,      *)
(* autoExtract on and off; the statement is compiled, executed and asked    *)
(* for rows.                                                                *)
(***************************************************************************)
InitCompile ==
    \E t \in Texts, x \in {c \in ExtractionConfigs : Len(c) = 1},
       l \in Limits, ae \in BOOLEAN :
        Constructed(t, x, l, ae)

NextCompile ==
    \/ Compile
    \/ Bind
    \/ HasNext

SpecCompile == InitCompile /\ [][NextCompile]_vars

(***************************************************************************)
(* SpecRowCount: the affected-row count.  One statement is compiled,        *)
(* executed with every set of input bindings or directly, cleared and       *)
(* asked for its affected-row count.                                        *)
(***************************************************************************)
InitRowCount ==
    Constructed(<<"s">>, <<[i \in 1..MaxBind |-> [bulk |-> FALSE]]>>, LIMIT_UNLIMITED, TRUE)

BindRowsEnv ==
    Vary(BindBase, "binds", BindingSeqs) \cup Vary(BindBase, "e", {"fail"})

BindRows == BindWith(BindRowsEnv)

NextRowCount ==
    \/ Compile
    \/ BindRows
    \/ ExecDirect
    \/ Clear
    \/ AffectedRowCount

SpecRowCount == InitRowCount /\ [][NextRowCount]_vars

(***************************************************************************)
(* Properties of the fetch/cursor state machine.                            *)
(***************************************************************************)
\* Rows in the order the driver serves them: result after result, and within
\* a result by row number.
InDriverOrder(rows) ==
    \A i \in DOMAIN rows :
        IF i = 1 THEN rows[i][2] = 1
        ELSE \/ rows[i] = <<rows[i - 1][1], rows[i - 1][2] + 1>>
             \/ rows[i][1] > rows[i - 1][1] /\ rows[i][2] = 1

\* C1: for a statement with one data set, a caller alternating hasNext() and
\* next() after execution gets true from hasNext() exactly when a new row was
\* fetched, next() then extracts that row, the rows come in the driver's
\* order, and hasNext() returns false when the driver has reported the end
\* with every fetched row extracted.
C1_SingleResultSetIteration ==
    (phase # "off" /\ Len(extractions) = 1) =>
        /\ \A i \in DOMAIN fetched : fetched[i] = <<1, i>>
        /\ phase = "hasNext" => yielded = fetched
        /\ phase = "next" =>
              /\ Len(fetched) = Len(yielded) + 1
              /\ yielded = SubSeq(fetched, 1, Len(yielded))
              /\ nextRowReady(World)
              /\ drv.buf = fetched[Len(fetched)]
        /\ phase = "done" =>
              /\ yielded = fetched
              /\ hasData(World) => drv.cursor = "eof"

C1_Witness ==
    /\ phase = "done"
    /\ Len(extractions) = 1
    /\ yielded = [i \in 1..MaxRows |-> <<1, i>>]

C3_NextNeedsFetchedRow ==
    [][(last'.op = "next" /\ Len(Extracts(World)) > 0
        /\ drv.cursor \in {"open", "eof"}
        /\ ~(_stepCalled /\ nextRowReady(World))) =>
            last'.thrown = "StatementException"]_vars

\* C4 (as stated): once a hasNext() of a run of consecutive hasNext() calls
\* on an executed statement has issued a fetch, no later hasNext() of the run
\* issues one.
C4_OneFetchPerRun ==
    [][(runFetched /\ drv.cursor \in {"open", "eof"} /\ last'.op = "hasNext") =>
            Count(trace', "SQLFetch") = 0]_vars

\* C4 (amended): a hasNext() called while the step flag is set issues no fetch
\* and no more-results call and keeps the fetch response; unless preparing
\* fails, it returns the readiness of the fetch already made and leaves the
\* step flag equal to it, so that a ready row stays ready until next() takes
\* it.
C4_PendingStepIsReused ==
    [][(_stepCalled /\ hasData(World) /\ last'.op = "hasNext") =>
            /\ Count(trace', "SQLFetch") = 0
            /\ Count(trace', "SQLMoreResults") = 0
            /\ _nextResponse' = _nextResponse
            /\ last'.thrown = None => /\ last'.ret = nextRowReady(World)
                                      /\ _stepCalled' = nextRowReady(World)
            /\ last'.thrown # None => _stepCalled' = _stepCalled]_vars

C4_Witness ==
    /\ last.op = "hasNext"
    /\ last.thrown = None
    /\ last.ret
    /\ trace = <<>>
    /\ _stepCalled
    /\ phase = "off"
    /\ drv.buf # NoRow

\* C5: compile() on a compiled statement changes no field of the statement
\* and makes no driver call.
C5_CompileTwiceIsNoOp ==
    [][(~_canCompile /\ last'.op = "compile") =>
            /\ trace' = <<>>
            /\ last'.thrown = None
            /\ UNCHANGED <<_stepCalled, _nextResponse, _prepared, _affectedRowCount,
                           _canCompile, _preparations, _extractors, _pBinder,
                           _errorInfo, _columnPtrs, _curDataSet, extractions,
                           drv, allocs>>]_vars

C5_Witness ==
    /\ last.op = "compile"
    /\ trace = <<>>
    /\ ~_canCompile
    /\ _prepared
    /\ Len(_preparations) = 1
    /\ _pBinder # 0

AllEqual(counts) == \A i, j \in DOMAIN counts : counts[i] = counts[j]

\* C6 (as stated): next() on a ready row fails with the inconsistent-count
\* error, keeping the step flag, when the bindings' counts are not all equal,
\* and otherwise returns the common count and clears the step flag.
C6_UnequalCountsFail ==
    [][(last'.op = "next" /\ _stepCalled /\ nextRowReady(World)
        /\ Len(Extracts(World)) > 0) =>
            IF AllEqual(last'.arg.counts)
            THEN /\ last'.thrown = None
                 /\ last'.count = last'.arg.counts[1]
                 /\ ~_stepCalled'
            ELSE /\ last'.thrown = "IllegalStateException"
                 /\ _stepCalled' = _stepCalled]_vars

\* C8 (as stated): a hasNext() whose only fetch met invalid cursor state and
\* that did not fail returns false and leaves no row ready.
C8_InvalidCursorStateEndsInNoData ==
    (last.op = "hasNext" /\ last.thrown = None /\ last.quirks > 0
     /\ Count(trace, "SQLFetch") = 1) =>
        /\ ~last.ret
        /\ ~nextRowReady(World)

(***************************************************************************)
(* Properties of preparation.                                               *)
(***************************************************************************)
BulkUnlimited(w) ==
    /\ Len(Extracts(w)) > 0
    /\ Extracts(w)[1].bulk
    /\ getExtractionLimit(w) = LIMIT_UNLIMITED

\* C7 (as stated): with a bulk first output binding and an unlimited
\* extraction limit, an operation that reached doPrepare() failed there with
\* the unbounded-bulk-fetch error, whatever the session and the result.
C7_BulkUnlimitedAlwaysFails ==
    (last.dpRan > 0 /\ BulkUnlimited(World)) =>
        /\ last.thrown = "InvalidArgumentException"
        /\ last.dpCalls = <<>>
        /\ ~_prepared
        /\ _canCompile

\* C7 (amended): with autoExtract on and result columns pending, a
\* Preparation Context for the current data set, a bulk first output binding
\* and an unlimited extraction limit, an operation that reached doPrepare()
\* failed there with the unbounded-bulk-fetch error before
\* doPrepare() made a driver call, and the statement is neither prepared nor
\* compiled.
C7_BulkUnlimitedFailsWhenPreparing ==
    (last.dpRan > 0 /\ autoExtract /\ hasData(World) /\ BulkUnlimited(World)
     /\ currentDataSet(World) < Len(_preparations)) =>
        /\ last.thrown = "InvalidArgumentException"
        /\ last.dpCalls = <<>>
        /\ ~_prepared
        /\ _canCompile

C7_Witness ==
    /\ last.op = "compile"
    /\ last.dpRan > 0
    /\ autoExtract /\ hasData(World) /\ BulkUnlimited(World)
    /\ last.thrown = "InvalidArgumentException"
    /\ trace = <<"SQLPrepare">>

(***************************************************************************)
(* Properties of the affected-row count.                                    *)
(***************************************************************************)
\* C9: the affectedRowCount() that follows clear() calls SQLRowCount once and
\* returns what the driver reports (0 if the call fails), not the count held
\* before the clear.
C9_ClearForcesRequery ==
    [][(last.op = "clear" /\ last'.op = "affectedRowCount") =>
            /\ trace' = <<"SQLRowCount">>
            /\ last'.count = IF last'.arg.fail THEN 0 ELSE last'.arg.rows]_vars

C9_Witness ==
    /\ last.op = "affectedRowCount"
    /\ last.dropped > 0
    /\ trace = <<"SQLRowCount">>
    /\ last.count = 0

\* C10 (as stated): an affectedRowCount() that follows one which read the
\* count from the driver makes no driver call and returns the same count.
C10_RowCountQueriedOnce ==
    [][(last.op = "affectedRowCount" /\ trace = <<"SQLRowCount">> /\ ~last.arg.fail
        /\ drv.cursor # "closed" /\ last'.op = "affectedRowCount") =>
            /\ trace' = <<>>
            /\ last'.count = last.count]_vars

(***************************************************************************)
(* SpecFormat: column discovery.  Statements of every shape of text (plain, *)
(* wrapped in braces, with blanks around, a lone brace), without output     *)
(* bindings, so that the engine discovers the columns itself; the statement *)
(* is compiled, executed and asked for rows.                                *)
(***************************************************************************)
FormatTexts ==
    {<<"s">>, <<"{">>, <<"{", "}">>, <<"{", "c", "}">>, <<"{", "c">>, <<"c", "}">>,
     <<" ", "{", "c", "}", " ">>, <<" ", "{">>, <<"{", " ", "}">>}

InitFormat ==
    \E t \in FormatTexts, ae \in BOOLEAN :
        Constructed(t, <<<<>>>>, LIMIT_UNLIMITED, ae)

NextFormat ==
    \/ Compile
    \/ Bind
    \/ HasNext

SpecFormat == InitFormat /\ [][NextFormat]_vars

(***************************************************************************)
(* Properties of column discovery.                                          *)
(***************************************************************************)
\* The statement is call-style as the claim words it: its text without the
\* blanks at both ends is two characters or more, the first "{", the last "}".
CallStyle(t) ==
    \E i, j \in DOMAIN t :
        /\ i < j
        /\ t[i] = "{" /\ t[j] = "}"
        /\ \A k \in DOMAIN t : (k < i \/ k > j) => t[k] = " "

\* C11: a format error met while discovering columns escapes compile() or
\* hasNext() exactly when the statement is not call-style; for a call-style
\* statement compile() completes and marks the statement compiled, and a
\* hasNext() on the compiled statement neither raises the format error nor
\* reads outside the contexts.
C11_FormatErrorEscapesUnlessCall ==
    /\ (last.op \in {"compile", "hasNext"} /\ last.formatErrs > 0) =>
          (last.thrown = "DataFormatException" <=> ~CallStyle(text))
    /\ (last.op = "compile" /\ last.formatErrs > 0 /\ CallStyle(text)) =>
          last.thrown = None /\ ~_canCompile
    /\ (last.op = "hasNext" /\ CallStyle(text) /\ ~_canCompile) =>
          last.thrown \in {None, "StatementException"} /\ ~ub

C11_Witness ==
    /\ last.op = "hasNext"
    /\ last.formatErrs > 0
    /\ last.thrown = None
    /\ ~_canCompile
    /\ text = <<" ", "{", "c", "}", " ">>
    /\ Count(trace, "SQLFetch") = 1

(***************************************************************************)
(* Properties of compilation.                                               *)
(***************************************************************************)
\* C12: every compile() of a statement with empty text fails with the
\* empty-statement error before any driver call, leaves no Preparation
\* Context, no Extractor and no Binder, and leaves the statement not
\* compiled, so that the next compile() is attempted (and fails) again.
C12_EmptyStatementRejected ==
    (last.op = "compile" /\ text = <<>>) =>
        /\ last.thrown = "ODBCException"
        /\ trace = <<>>
        /\ _preparations = <<>>
        /\ _extractors = <<>>
        /\ _pBinder = 0
        /\ last.dpRan = 0
        /\ _canCompile

C12_Witness ==
    /\ last.op = "compile"
    /\ text = <<>>
    /\ last.thrown = "ODBCException"
    /\ _canCompile
    /\ Len(_preparations) = 0

(***************************************************************************)
(* SpecPut: deferred parameter data.  A statement with one input binding is *)
(* compiled, and bound and executed with every script of the deferred-data  *)
(* protocol and every final answer of the driver, cleared and asked for     *)
(* rows.                                                                    *)
(***************************************************************************)
InitPut ==
    Constructed(<<"s">>, <<[i \in 1..MaxBind |-> [bulk |-> FALSE]]>>, LIMIT_UNLIMITED, TRUE)

BindPutEnv ==
    {[BindBase EXCEPT !.binds = OneBinding, !.e = "need", !.pd = s, !.pdEnd = r] :
        s \in PutScripts,
        r \in {SQL_SUCCESS, SQL_SUCCESS_WITH_INFO, SQL_NO_DATA, SQL_ERROR}}
    \cup {[BindBase EXCEPT !.binds = OneBinding, !.e = e] :
             e \in {"rows", "rowless", "info", "fail"}}

BindPut ==
    /\ Alive
    /\ \E d \in BindPutEnv :
         LET w == bindImpl(World, d)
         IN  /\ Commit("bind", [NoArg EXCEPT !.e = d.e, !.pd = d.pd, !.pdEnd = d.pdEnd], w)
             /\ Observe(IF Thrown(w) THEN "off" ELSE "hasNext", <<>>, <<>>, FALSE)

NextPut ==
    \/ Compile
    \/ BindPut
    \/ Clear
    \/ HasNext

SpecPut == InitPut /\ [][NextPut]_vars

(***************************************************************************)
(* Properties of deferred parameter data.                                   *)
(***************************************************************************)
DeferredCall(f) == f \in {"SQLParamData", "SQLPutData(size)", "SQLPutData(0)"}

\* The deferred-data calls the claim expects for a script: per request one
\* parameter-data query and one put, of the buffer's size or of zero length,
\* up to the first failed put; without a failed put, one more query.
RECURSIVE DeferredCalls(_)
DeferredCalls(pd) ==
    IF pd = <<>> THEN <<"SQLParamData">>
    ELSE <<"SQLParamData",
           IF pd[1].pParam THEN "SQLPutData(size)" ELSE "SQLPutData(0)">>
         \o (IF pd[1].put = "fail" THEN <<>> ELSE DeferredCalls(Tail(pd)))

PutFailed(pd) == \E i \in DOMAIN pd : pd[i].put = "fail"

\* C13: a bind+execute of a compiled statement whose SQLExecute asked for
\* data makes, after SQLExecute, exactly the deferred-data calls of the
\* script; it fails with the statement error when a put failed or the final
\* answer is an error, and otherwise succeeds.  Every bind+execute
\* synchronizes the output parameters once if it succeeds and not at all if
\* it fails; without a request for data it makes no deferred-data call.
C13_DeferredDataLoop ==
    (last.op = "bind" /\ ~_canCompile) =>
        /\ last.sync = IF last.thrown = None THEN 1 ELSE 0
        /\ IF last.arg.e = "need"
           THEN /\ SelectSeq(trace, DeferredCall) = DeferredCalls(last.arg.pd)
                /\ Count(trace, "SQLExecute") = 1
                /\ \A i \in DOMAIN trace :
                      DeferredCall(trace[i]) =>
                          \E j \in 1..(i - 1) : trace[j] = "SQLExecute"
                /\ last.thrown =
                      IF PutFailed(last.arg.pd) \/ last.arg.pdEnd = SQL_ERROR
                      THEN "StatementException" ELSE None
                /\ PutFailed(last.arg.pd) =>
                      DeferredCall(trace[Len(trace)]) /\ trace[Len(trace)] # "SQLParamData"
           ELSE /\ SelectSeq(trace, DeferredCall) = <<>>
                /\ last.thrown = None <=> last.arg.e # "fail"

C13_Witness ==
    /\ last.op = "bind"
    /\ ~_canCompile
    /\ last.thrown = None
    /\ last.sync = 1
    /\ trace = <<"SQLFreeStmt", "SQLBindParameter", "SQLExecute",
                 "SQLParamData", "SQLPutData(size)",
                 "SQLParamData", "SQLPutData(0)", "SQLParamData">>

(***************************************************************************)
(* SpecBind: the input bindings.  One statement is compiled, asked whether  *)
(* it can bind and bound and executed, with every sequence of input         *)
(* bindings.                                                                *)
(***************************************************************************)
CanBind ==
    /\ Alive
    /\ \E b \in BindingSeqs :
         /\ Commit("canBind", [NoArg EXCEPT !.binds = b], Return(World, canBind(b)))
         /\ UNCHANGED <<phase, fetched, yielded, runFetched>>

NextBind ==
    \/ Compile
    \/ CanBind
    \/ BindRows

SpecBind == InitRowCount /\ [][NextBind]_vars

(***************************************************************************)
(* Properties of the input bindings.                                        *)
(***************************************************************************)
\* C14 (as stated): canBind() returns true exactly when some input binding,
\* at whatever position, reports itself bindable.
C14_CanBindIffSomeBindable ==
    last.op = "canBind" =>
        (last.ret <=> \E i \in DOMAIN last.arg.binds : last.arg.binds[i].canBind)

(***************************************************************************)
(* Properties of the diagnostic records.                                    *)
(***************************************************************************)
IsPrefix(s, t) == Len(s) <= Len(t) /\ s = SubSeq(t, 1, Len(s))

\* C15 (as stated): when clear(), bind+execute or direct-execute issues its
\* driver call, _errorInfo holds no record of an earlier operation; every
\* other operation only appends to _errorInfo.
C15_DiagnosticsNeverSurvive ==
    /\ [](last.op \in {"clear", "bind", "execDirect"} => last.carried = 0)
    /\ [][last'.op \notin {"clear", "bind", "execDirect"} =>
              IsPrefix(_errorInfo, _errorInfo')]_vars

(***************************************************************************)
(* Properties of hasNext() across data sets.                                *)
(***************************************************************************)
\* C16 (as stated): when, iterating an executed statement, hasNext() has
\* returned true, the fetch response is a row (success or success with
\* info), and a next() called right after it does not fail with the
\* row-not-available error.
C16_TrueMeansRowReady ==
    /\ []((phase = "next" /\ last.op = "hasNext" /\ last.thrown = None /\ last.ret) =>
              _nextResponse \in {SQL_SUCCESS, SQL_SUCCESS_WITH_INFO})
    /\ [][(phase = "next" /\ last.op = "hasNext" /\ last.thrown = None /\ last.ret
           /\ last'.op = "next") => last'.thrown # "StatementException"]_vars

\* C17 (as stated): the Preparation Contexts are those of the data-set
\* indices the statement has visited, one each, in the order of the indices;
\* an operation that visits no new index, a re-execution and a new iteration
\* included, adds none.
C17_OneContextPerVisitedDataSet ==
    /\ [](phase # "off" =>
             /\ Len(_preparations) = Cardinality(seen.visited)
             /\ seen.visited = 0..(Len(_preparations) - 1))
    /\ [][seen'.visited = seen.visited =>
              Len(_preparations') = Len(_preparations)]_vars

\* C18 (as stated): there are as many Extractors as Preparation Contexts,
\* and the Extractor at each index is the one built on the context at that
\* index.
C18_ExtractorsPairedWithContexts ==
    /\ Len(_extractors) = Len(_preparations)
    /\ \A i \in DOMAIN _extractors : _extractors[i].prep = _preparations[i].id

\* C19 (as stated): a hasNext() that follows a hasNext() on an executed
\* statement whose results the driver has reported exhausted runs no
\* makeStep() and no doPrepare() that indexes _extractors or _preparations
\* at or past its end.
C19_CurrentDataSetInRange ==
    [][(last.op = "hasNext" /\ drv.cursor = "done" /\ last'.op = "hasNext") =>
            ~ub']_vars

\* C20 (as stated): with autoExtract on, every SQLFetch that hasNext()
\* issues on data set d comes after a doPrepare() that completed for d
\* since the statement was last executed (or, on its first execution,
\* since it was compiled).
C20_FetchAfterPreparation ==
    (last.op = "hasNext" /\ autoExtract /\ seen.executed) => last.early = 0

=============================================================================
